---- MODULE Spec2Model ----
(***************************************************************************)
(* FormAnalyzer (src/form_analyzer.py): a page analysis drives a browser,  *)
(* reveals each form of the page, extracts its fields, and the result is   *)
(* serialized to JSON and turned into a Helium script.                     *)
(*                                                                         *)
(* A Python str is a sequence of one-character strings, so that strip,     *)
(* lower, replace, the f-string formatting of the script and json.dumps    *)
(* are computed character by character.  Texts of the page are single      *)
(* lines.                                                                  *)
(***************************************************************************)
EXTENDS Integers, Sequences, FiniteSets, TLC

\* Bounds of the model.
MaxButtons == 2
MaxElems == 3
MaxFaults == 1
\* the longest field list of a result handed to generate_helium_script alone
MaxFields == 2
\* the most steps an agent run takes (max_steps)
MaxSteps == 4

(***************************************************************************)
(* Python str operations                                                   *)
(***************************************************************************)
UpperCase == <<"A", "B", "C", "D", "E", "F", "G", "H", "I", "J", "K", "L", "M",
    "N", "O", "P", "Q", "R", "S", "T", "U", "V", "W", "X", "Y", "Z">>
LowerCase == <<"a", "b", "c", "d", "e", "f", "g", "h", "i", "j", "k", "l", "m",
    "n", "o", "p", "q", "r", "s", "t", "u", "v", "w", "x", "y", "z">>

\* str.lower() on one character
LowerChar(c) ==
    IF \E k \in 1..26 : UpperCase[k] = c
    THEN LowerCase[CHOOSE k \in 1..26 : UpperCase[k] = c]
    ELSE c

\* str.lower()
StrLower(s) == [k \in 1..Len(s) |-> LowerChar(s[k])]

\* str.replace(" ", "_")
StrReplaceSpace(s) == [k \in 1..Len(s) |-> IF s[k] = " " THEN "_" ELSE s[k]]

IsSpace(c) == c \in {" ", "\t", "\n"}

\* str.lstrip(): only the leading white space goes
StrStripLeft(s) ==
    LET keep == {k \in 1..Len(s) : ~IsSpace(s[k])}
        lo == CHOOSE k \in keep : \A m \in keep : k <= m
    IN IF keep = {} THEN <<>> ELSE SubSeq(s, lo, Len(s))

\* str.strip()
StrStrip(s) ==
    LET keep == {k \in 1..Len(s) : ~IsSpace(s[k])}
        lo == CHOOSE k \in keep : \A m \in keep : k <= m
        hi == CHOOSE k \in keep : \A m \in keep : m <= k
    IN IF keep = {} THEN <<>> ELSE SubSeq(s, lo, hi)

\* s.startswith(p)
StartsWith(s, p) == Len(s) >= Len(p) /\ SubSeq(s, 1, Len(p)) = p

\* s.endswith(p)

\* Optional[str]: None, or a str
None == [isNone |-> TRUE, s |-> <<>>]
Some(s) == [isNone |-> FALSE, s |-> s]

\* the truth value Python gives an Optional[str]: None and "" are false
Truthy(o) == ~o.isNone /\ o.s # <<>>

\* a or b, on two str
StrOr(a, b) == IF a # <<>> THEN a ELSE b

(***************************************************************************)
(* String literals of the source                                           *)
(***************************************************************************)
L_header == <<"#", " ", "A", "u", "t", "o", "-", "g", "e", "n", "e", "r", "a", "t", "e", "d",
    " ", "H", "e", "l", "i", "u", "m", " ", "s", "c", "r", "i", "p", "t", " ", "f", "o", "r",
    " ", "f", "o", "r", "m", " ", "i", "n", "t", "e", "r", "a", "c", "t", "i", "o", "n">>
L_import_helium == <<"f", "r", "o", "m", " ", "h", "e", "l", "i", "u", "m", " ", "i", "m",
    "p", "o", "r", "t", " ", "*">>
L_import_sleep == <<"f", "r", "o", "m", " ", "t", "i", "m", "e", " ", "i", "m", "p", "o",
    "r", "t", " ", "s", "l", "e", "e", "p">>
L_nav_comment == <<"#", " ", "N", "a", "v", "i", "g", "a", "t", "e", " ", "t", "o", " ", "t",
    "h", "e", " ", "t", "a", "r", "g", "e", "t", " ", "p", "a", "g", "e">>
L_go_to == <<"g", "o", "_", "t", "o", "(", "'">>
L_close_call == <<"'", ")">>
L_sleep2 == <<"s", "l", "e", "e", "p", "(", "2", ")", " ", " ", "#", " ", "W", "a", "i", "t",
    " ", "f", "o", "r", " ", "p", "a", "g", "e", " ", "t", "o", " ", "l", "o", "a", "d">>
L_def_fill == <<"d", "e", "f", " ", "f", "i", "l", "l", "_">>
L_form_def == <<"_", "f", "o", "r", "m", "(", ")", ":">>
L_click_comment == <<" ", " ", " ", " ", "#", " ", "C", "l", "i", "c", "k", " ", "t", "h",
    "e", " ">>
L_button_to_show == <<" ", "b", "u", "t", "t", "o", "n", " ", "t", "o", " ", "s", "h", "o",
    "w", " ", "t", "h", "e", " ", "f", "o", "r", "m">>
L_click == <<" ", " ", " ", " ", "c", "l", "i", "c", "k", "(", "'">>
L_sleep1_form == <<" ", " ", " ", " ", "s", "l", "e", "e", "p", "(", "1", ")", " ", " ", "#",
    " ", "W", "a", "i", "t", " ", "f", "o", "r", " ", "f", "o", "r", "m", " ", "t", "o", " ",
    "a", "p", "p", "e", "a", "r">>
L_fill_comment == <<" ", " ", " ", " ", "#", " ", "F", "i", "l", "l", " ", "f", "o", "r",
    "m", " ", "f", "i", "e", "l", "d", "s">>
L_write_example == <<" ", " ", " ", " ", "w", "r", "i", "t", "e", "(", "'", "e", "x", "a",
    "m", "p", "l", "e", "_">>
L_write_sample == <<" ", " ", " ", " ", "w", "r", "i", "t", "e", "(", "'", "S", "a", "m",
    "p", "l", "e", " ", "t", "e", "x", "t", " ", "f", "o", "r", " ">>
L_into == <<"'", ",", " ", "i", "n", "t", "o", "=", "'">>
L_select == <<" ", " ", " ", " ", "s", "e", "l", "e", "c", "t", "(", "'">>
L_from == <<"'", ",", " ", "f", "r", "o", "m", "_", "=", "'">>
L_submit_comment == <<" ", " ", " ", " ", "#", " ", "S", "u", "b", "m", "i", "t", " ", "t",
    "h", "e", " ", "f", "o", "r", "m">>
L_sleep1_submit == <<" ", " ", " ", " ", "s", "l", "e", "e", "p", "(", "1", ")", " ", " ",
    "#", " ", "W", "a", "i", "t", " ", "f", "o", "r", " ", "s", "u", "b", "m", "i", "s", "s",
    "i", "o", "n">>
L_dialogs == <<" ", " ", " ", " ", "#", " ", "H", "a", "n", "d", "l", "e", " ", "a", "n",
    "y", " ", "c", "o", "n", "f", "i", "r", "m", "a", "t", "i", "o", "n", " ", "d", "i", "a",
    "l", "o", "g", "s", " ", "h", "e", "r", "e", " ", "i", "f", " ", "n", "e", "e", "d", "e",
    "d">>
L_main_comment == <<"#", " ", "M", "a", "i", "n", " ", "e", "x", "e", "c", "u", "t", "i", "o", "n">>
L_if_main == <<"i", "f", " ", "_", "_", "n", "a", "m", "e", "_", "_", " ", "=", "=", " ",
    "'", "_", "_", "m", "a", "i", "n", "_", "_", "'", ":">>
L_call_fill == <<" ", " ", " ", " ", "f", "i", "l", "l", "_">>
L_form_call == <<"_", "f", "o", "r", "m", "(", ")">>
L_verify == <<" ", " ", " ", " ", "#", " ", "Y", "o", "u", " ", "c", "a", "n", " ", "a", "d",
    "d", " ", "v", "e", "r", "i", "f", "i", "c", "a", "t", "i", "o", "n", " ", "c", "o", "d",
    "e", " ", "h", "e", "r", "e", " ", "t", "o", " ", "c", "h", "e", "c", "k", " ", "i", "f",
    " ", "f", "o", "r", "m", " ", "s", "u", "b", "m", "i", "s", "s", "i", "o", "n", " ", "w",
    "a", "s", " ", "s", "u", "c", "c", "e", "s", "s", "f", "u", "l">>
L_close_comment == <<" ", " ", " ", " ", "#", " ", "C", "l", "o", "s", "e", " ", "t", "h",
    "e", " ", "b", "r", "o", "w", "s", "e", "r", " ", "w", "h", "e", "n", " ", "d", "o", "n",
    "e">>
L_kill == <<" ", " ", " ", " ", "k", "i", "l", "l", "_", "b", "r", "o", "w", "s", "e", "r",
    "(", ")">>
L_no_forms == <<"#", " ", "N", "o", " ", "v", "a", "l", "i", "d", " ", "f", "o", "r", "m",
    "s", " ", "f", "o", "u", "n", "d", " ", "t", "o", " ", "g", "e", "n", "e", "r", "a", "t",
    "e", " ", "s", "c", "r", "i", "p", "t", " ", "f", "o", "r">>
T_text == <<"t", "e", "x", "t">>
T_email == <<"e", "m", "a", "i", "l">>
T_password == <<"p", "a", "s", "s", "w", "o", "r", "d">>
T_tel == <<"t", "e", "l">>
T_date == <<"d", "a", "t", "e">>
T_textarea == <<"t", "e", "x", "t", "a", "r", "e", "a">>
T_select == <<"s", "e", "l", "e", "c", "t">>
T_checkbox == <<"c", "h", "e", "c", "k", "b", "o", "x">>
T_radio == <<"r", "a", "d", "i", "o">>
T_hidden == <<"h", "i", "d", "d", "e", "n">>
K_success == <<"s", "u", "c", "c", "e", "s", "s">>
K_url == <<"u", "r", "l">>
K_forms == <<"f", "o", "r", "m", "s">>
K_screenshots == <<"s", "c", "r", "e", "e", "n", "s", "h", "o", "t", "s">>
K_error == <<"e", "r", "r", "o", "r">>
K_name == <<"n", "a", "m", "e">>
K_id == <<"i", "d">>
K_type == <<"t", "y", "p", "e">>
K_label == <<"l", "a", "b", "e", "l">>
K_required == <<"r", "e", "q", "u", "i", "r", "e", "d">>
K_options == <<"o", "p", "t", "i", "o", "n", "s">>
K_placeholder == <<"p", "l", "a", "c", "e", "h", "o", "l", "d", "e", "r">>
K_fields == <<"f", "i", "e", "l", "d", "s">>
K_submit_button == <<"s", "u", "b", "m", "i", "t", "_", "b", "u", "t", "t", "o", "n">>
J_true == <<"t", "r", "u", "e">>
J_false == <<"f", "a", "l", "s", "e">>
J_null == <<"n", "u", "l", "l">>
E_navigate == <<"F", "a", "i", "l", "e", "d", " ", "t", "o", " ", "n", "a", "v", "i", "g",
    "a", "t", "e", " ", "t", "o", " ", "t", "h", "e", " ", "U", "R", "L">>
P_full_page == <<"f", "u", "l", "l", "_", "p", "a", "g", "e">>
P_form_suffix == <<"_", "f", "o", "r", "m">>
P_png == <<".", "p", "n", "g">>
P_dir == <<"f", "o", "r", "m", "_", "s", "c", "r", "e", "e", "n", "s", "h", "o", "t", "s", "/">>
U_localhost == <<"h", "t", "t", "p", ":", "/", "/", "l", "o", "c", "a", "l", "h", "o", "s",
    "t", ":", "5", "1", "7", "4">>
S_email == <<"e", "m", "a", "i", "l">>
S_Email_label == <<" ", "E", "m", "a", "i", "l", " ">>
S_Log_In == <<"L", "o", "g", " ", "I", "n">>
S_Login_Form == <<" ", "L", "o", "g", "i", "n", " ", "F", "o", "r", "m", " ">>
S_login_form == <<"l", "o", "g", "i", "n", "_", "f", "o", "r", "m">>
S_Sign_Up == <<"S", "i", "g", "n", " ", "U", "p">>
S_g == <<"g">>
S_a == <<"a">>
S_b == <<"b">>
S_A == <<"A">>
S_B == <<"B", " ">>
S_desc == <<"d", "e", "s", "c">>
S_sel == <<"s", "e", "l">>
S_Pick == <<"P", "i", "c", "k">>
S_x == <<"x">>
S_quote == <<"5", "\"", "\\">>
S_Go == <<"G", "o">>
S_number == <<"n", "u", "m", "b", "e", "r">>

(***************************************************************************)
(* The page: what the browser shows                                        *)
(***************************************************************************)
\* An element of a form container, with what get_attribute, tag_name, text and
\* find_elements return for it: an absent attribute reads as "" (the code's
\* `or ""`), `required` is whether the attribute is present, ptag/spans/ptext
\* are the parent element's tag, its span texts and its text, `for` and `text`
\* are a label's, `options` the texts of a select's option elements.
Elem(tag, type, id, name, required, value, ptag, spans, ptext, for, text, options) ==
    [tag |-> tag, type |-> type, id |-> id, name |-> name, placeholder |-> <<>>,
     required |-> required, value |-> value, ptag |-> ptag, spans |-> spans,
     ptext |-> ptext, for |-> for, text |-> text, options |-> options]

InputEmail == Elem("input", <<>>, S_email, S_email, TRUE, <<>>, "div", <<>>, <<>>, <<>>, <<>>, <<>>)
HiddenG == Elem("input", T_hidden, <<>>, S_g, FALSE, S_x, "div", <<>>, <<>>, <<>>, <<>>, <<>>)
CheckA == Elem("input", T_checkbox, <<>>, S_g, FALSE, S_a, "label", <<S_A>>, S_A, <<>>, <<>>, <<>>)
CheckB == Elem("input", T_checkbox, <<>>, S_g, FALSE, <<>>, "label", <<>>, S_B, <<>>, <<>>, <<>>)
RadioG == Elem("input", T_radio, <<>>, S_g, FALSE, S_b, "div", <<>>, <<>>, <<>>, <<>>, <<>>)
TextareaDesc == Elem("textarea", <<>>, S_desc, S_desc, FALSE, <<>>, "div", <<>>, <<>>, <<>>, <<>>, <<>>)
SelectShort == Elem("select", <<>>, S_sel, S_sel, FALSE, <<>>, "div", <<>>, <<>>, <<>>, <<>>,
                    << <<>>, S_x >>)
SelectLong == Elem("select", <<>>, S_sel, S_sel, TRUE, <<>>, "div", <<>>, <<>>, <<>>, <<>>,
                   <<S_Pick, S_x, S_quote>>)
SelectBlankFirst == Elem("select", <<>>, S_sel, S_sel, FALSE, <<>>, "div", <<>>, <<>>, <<>>, <<>>,
                         << <<>>, S_x, S_Pick >>)
LabelEmail == Elem("label", <<>>, <<>>, <<>>, FALSE, <<>>, "div", <<>>, <<>>, S_email, S_Email_label, <<>>)
LabelSel == Elem("label", <<>>, <<>>, <<>>, FALSE, <<>>, "div", <<>>, <<>>, S_sel, S_Pick, <<>>)

\* the elements a form container is drawn from
Elements == {InputEmail, HiddenG, CheckA, CheckB, RadioG, TextareaDesc,
             SelectShort, SelectLong, SelectBlankFirst, LabelEmail, LabelSel}

\* a form container: its elements in document order, and the texts of its
\* submit buttons
Container(elems, submits) == [elems |-> elems, submits |-> submits]

SeqsUpTo(S, n) == UNION {[1..k -> S] : k \in 0..n}

\* the containers of the one-form pages: any elements in any order
FormContainers == {Container(es, <<S_Go>>) : es \in SeqsUpTo(Elements, MaxElems)}

\* the containers of the several-form pages
LoginContainer == Container(<<LabelEmail, InputEmail>>, <<S_Log_In>>)
SignupContainer ==
    Container(<<RadioG, TextareaDesc, CheckA, SelectLong, CheckB>>, <<S_Go, S_Log_In>>)
BareContainer == Container(<<HiddenG>>, <<>>)
BlankSubmitContainer == Container(<<SelectShort, InputEmail>>, << <<>> >>)

Button(text, container) == [text |-> text, container |-> container]

\* the form-reveal buttons of the several-form pages: the text of each and the
\* container its click reveals
Buttons == {Button(S_Login_Form, LoginContainer), Button(S_login_form, SignupContainer),
            Button(S_Sign_Up, BareContainer), Button(S_Sign_Up, BlankSubmitContainer)}

\* a page: its form-reveal buttons in document order
CataloguePages == SeqsUpTo(Buttons, MaxButtons)
FormPages == {<<Button(S_Login_Form, c)>> : c \in FormContainers}

Inputs(c) == LET IsInput(e) == e.tag = "input" IN SelectSeq(c.elems, IsInput)
Textareas(c) == LET IsTextarea(e) == e.tag = "textarea" IN SelectSeq(c.elems, IsTextarea)
Selects(c) == LET IsSelect(e) == e.tag = "select" IN SelectSeq(c.elems, IsSelect)

(***************************************************************************)
(* FormField, Form and the extraction of one container's fields            *)
(***************************************************************************)
FormField(name, field_id, field_type, label, required, options, placeholder) ==
    [name |-> name, field_id |-> field_id, field_type |-> field_type,
     label |-> label, required |-> required, options |-> options,
     placeholder |-> placeholder]

Form(name, form_id, fields, submit_button) ==
    [name |-> name, form_id |-> form_id, fields |-> fields,
     submit_button |-> submit_button]

\* a WebElement to search labels in, or (isWebElement FALSE) any other object
WebElement(c) == [isWebElement |-> TRUE, elems |-> c.elems]
NotAnElement == [isWebElement |-> FALSE, elems |-> <<>>]

\* _find_label_text(parent_element, field_id)
FindLabelText(parent, field_id) ==
    LET Matches(e) == e.tag = "label" /\ e.for = field_id
        labels == SelectSeq(parent.elems, Matches)
    IN IF field_id = <<>> THEN <<>>
       ELSE IF parent.isWebElement /\ labels # <<>> THEN StrStrip(labels[1].text)
       ELSE <<>>

IsGroupType(t) == t \in {T_checkbox, T_radio}

\* the text next to a checkbox or radio: the first span of its parent label,
\* the parent label's text without a span, the label found by id otherwise
GroupLabelText(e, label_text) ==
    IF e.ptag = "label"
    THEN IF e.spans # <<>> THEN e.spans[1] ELSE e.ptext
    ELSE label_text

\* the first field of that name, whatever its type
ExistingFieldByName(fields, name, field_type) ==
    LET hits == {k \in 1..Len(fields) : fields[k].name = name}
    IN IF hits = {} THEN 0 ELSE CHOOSE k \in hits : \A m \in hits : k <= m

\* next((f for f in form.fields if f.name == name and f.field_type == field_type), None):
\* the index of the first such field, 0 for None
ExistingField(fields, name, field_type) ==
    LET hits == {k \in 1..Len(fields) :
                    fields[k].name = name /\ fields[k].field_type = field_type}
    IN IF hits = {} THEN 0 ELSE CHOOSE k \in hits : \A m \in hits : k <= m

\* _process_input_field taking a hidden input of a group's name for a member
\* of the group
ProcessInputFieldHiddenOption(e, fields) ==
    LET field_type == StrOr(e.type, T_text)
        found == FindLabelText(NotAnElement, e.id)
        label_text == IF IsGroupType(field_type) THEN GroupLabelText(e, found) ELSE found
        existing == IF IsGroupType(field_type)
                    THEN ExistingField(fields, e.name, field_type)
                    ELSE IF field_type = T_hidden
                    THEN ExistingFieldByName(fields, e.name, field_type)
                    ELSE 0
        option == StrOr(e.value, label_text)
    IN IF existing # 0
       THEN [fields EXCEPT ![existing].options = Append(@, option)]
       ELSE IF field_type = T_hidden THEN fields
       ELSE Append(fields,
                   FormField(e.name, e.id, field_type, label_text, e.required,
                             IF IsGroupType(field_type) THEN <<option>> ELSE <<>>,
                             e.placeholder))

\* _process_input_field with options.insert(0, ...) for options.append(...)
ProcessInputFieldPrepend(e, fields) ==
    LET field_type == StrOr(e.type, T_text)
        found == FindLabelText(NotAnElement, e.id)
        label_text == IF IsGroupType(field_type) THEN GroupLabelText(e, found) ELSE found
        existing == IF IsGroupType(field_type)
                    THEN ExistingField(fields, e.name, field_type) ELSE 0
        option == StrOr(e.value, label_text)
    IN IF field_type = T_hidden THEN fields
       ELSE IF existing # 0
       THEN [fields EXCEPT ![existing].options = <<option>> \o @]
       ELSE Append(fields,
                   FormField(e.name, e.id, field_type, label_text, e.required,
                             IF IsGroupType(field_type) THEN <<option>> ELSE <<>>,
                             e.placeholder))

\* _process_input_field(input_elem, form) without a failing lookup: form.fields after it
ProcessInputField(e, fields) ==
    LET field_type == StrOr(e.type, T_text)
        \* the parent handed to _find_label_text is a str, never a WebElement
        found == FindLabelText(NotAnElement, e.id)
        label_text == IF IsGroupType(field_type) THEN GroupLabelText(e, found) ELSE found
        existing == IF IsGroupType(field_type)
                    THEN ExistingField(fields, e.name, field_type) ELSE 0
        option == StrOr(e.value, label_text)
    IN IF field_type = T_hidden THEN fields
       ELSE IF existing # 0
       THEN [fields EXCEPT ![existing].options = Append(@, option)]
       ELSE Append(fields,
                   FormField(e.name, e.id, field_type, label_text, e.required,
                             IF IsGroupType(field_type) THEN <<option>> ELSE <<>>,
                             e.placeholder))

\* the FormField of one textarea
TextareaField(c, e) ==
    FormField(e.name, e.id, T_textarea, FindLabelText(WebElement(c), e.id),
              e.required, <<>>, e.placeholder)

\* the options of a select: the texts of its option elements that are not empty
SelectOptions(e) == LET NonEmpty(t) == t # <<>> IN SelectSeq(e.options, NonEmpty)

\* the FormField of one select
SelectField(c, e) ==
    FormField(e.name, e.id, T_select, FindLabelText(WebElement(c), e.id),
              e.required, SelectOptions(e), <<>>)

\* the fields the textarea loop and then the select loop append, in that order
RestFields(c) ==
    [k \in 1..Len(Textareas(c)) |-> TextareaField(c, Textareas(c)[k])]
    \o [k \in 1..Len(Selects(c)) |-> SelectField(c, Selects(c)[k])]

\* FormField.to_dict()
FieldToDict(f) ==
    [name |-> f.name, id |-> f.field_id, type |-> f.field_type, label |-> f.label,
     required |-> f.required, options |-> f.options, placeholder |-> f.placeholder]

\* Form.to_dict()
FormToDict(f) ==
    [name |-> f.name, id |-> f.form_id,
     fields |-> [k \in 1..Len(f.fields) |-> FieldToDict(f.fields[k])],
     submit_button |-> f.submit_button]

(***************************************************************************)
(* generate_helium_script                                                  *)
(***************************************************************************)
RECURSIVE ConcatAll(_)
\* the concatenation of a sequence of sequences
ConcatAll(ss) == IF ss = <<>> THEN <<>> ELSE Head(ss) \o ConcatAll(Tail(ss))

\* form["name"].lower().replace(" ", "_")
ProcName(name) == StrReplaceSpace(StrLower(name))

IsWriteType(t) == t \in {T_text, T_email, T_password, T_tel, T_date}

\* whether a select field gets its select(...) line
SelectHasChoice(options) == options # <<>> /\ Len(options) > 1

\* the lines of a field, with a select(...) line for any select that has an option
FieldLinesSelectAny(field) ==
    IF IsWriteType(field.type)
    THEN << L_write_example \o field.name \o L_into \o field.label \o L_close_call >>
    ELSE IF field.type = T_textarea
    THEN << L_write_sample \o field.name \o L_into \o field.label \o L_close_call >>
    ELSE IF field.type = T_select
    THEN IF field.options # <<>>
         THEN << L_select \o field.options[Len(field.options)] \o L_from
                 \o field.label \o L_close_call >>
         ELSE <<>>
    ELSE IF field.type = T_checkbox
    THEN << L_click \o field.label \o L_close_call >>
    ELSE IF field.type = T_radio /\ field.options # <<>>
    THEN << L_click \o field.options[1] \o L_close_call >>
    ELSE <<>>

\* the lines of a field, writing into the field's name for its label
FieldLinesIntoName(field) ==
    IF IsWriteType(field.type)
    THEN << L_write_example \o field.name \o L_into \o field.name \o L_close_call >>
    ELSE IF field.type = T_textarea
    THEN << L_write_sample \o field.name \o L_into \o field.name \o L_close_call >>
    ELSE IF field.type = T_select
    THEN IF SelectHasChoice(field.options)
         THEN << L_select \o field.options[2] \o L_from \o field.label \o L_close_call >>
         ELSE <<>>
    ELSE IF field.type = T_checkbox
    THEN << L_click \o field.label \o L_close_call >>
    ELSE IF field.type = T_radio /\ field.options # <<>>
    THEN << L_click \o field.options[1] \o L_close_call >>
    ELSE <<>>

\* the lines of a field, selecting the option at index 0
FieldLinesSelectFirst(field) ==
    IF IsWriteType(field.type)
    THEN << L_write_example \o field.name \o L_into \o field.label \o L_close_call >>
    ELSE IF field.type = T_textarea
    THEN << L_write_sample \o field.name \o L_into \o field.label \o L_close_call >>
    ELSE IF field.type = T_select
    THEN IF SelectHasChoice(field.options)
         THEN << L_select \o field.options[1] \o L_from \o field.label \o L_close_call >>
         ELSE <<>>
    ELSE IF field.type = T_checkbox
    THEN << L_click \o field.label \o L_close_call >>
    ELSE IF field.type = T_radio /\ field.options # <<>>
    THEN << L_click \o field.options[1] \o L_close_call >>
    ELSE <<>>

\* the lines of a field, with lines only for the fields that are written into
FieldLinesWriteOnly(field) ==
    IF IsWriteType(field.type)
    THEN << L_write_example \o field.name \o L_into \o field.label \o L_close_call >>
    ELSE IF field.type = T_textarea
    THEN << L_write_sample \o field.name \o L_into \o field.label \o L_close_call >>
    ELSE <<>>

\* the lines one field adds to its form's procedure
FieldLines(field) ==
    IF IsWriteType(field.type)
    THEN << L_write_example \o field.name \o L_into \o field.label \o L_close_call >>
    ELSE IF field.type = T_textarea
    THEN << L_write_sample \o field.name \o L_into \o field.label \o L_close_call >>
    ELSE IF field.type = T_select
    THEN IF SelectHasChoice(field.options)
         THEN << L_select \o field.options[2] \o L_from \o field.label \o L_close_call >>
         ELSE <<>>
    ELSE IF field.type = T_checkbox
    THEN << L_click \o field.label \o L_close_call >>
    ELSE IF field.type = T_radio /\ field.options # <<>>
    THEN << L_click \o field.options[1] \o L_close_call >>
    ELSE <<>>

\* the lines that submit a form, when it recorded a submit button
SubmitLines(form) ==
    IF Truthy(form.submit_button)
    THEN << <<>>, L_submit_comment, L_click \o form.submit_button.s \o L_close_call,
            L_sleep1_submit, L_dialogs >>
    ELSE <<>>

\* the procedure of one form
FormLines(form) ==
    << L_def_fill \o ProcName(form.name) \o L_form_def,
       L_click_comment \o form.name \o L_button_to_show,
       L_click \o form.name \o L_close_call,
       L_sleep1_form,
       <<>>,
       L_fill_comment >>
    \o ConcatAll([k \in 1..Len(form.fields) |-> FieldLines(form.fields[k])])
    \o SubmitLines(form)
    \o << <<>> >>

\* the main section's lines for one form
MainLines(form) ==
    << L_call_fill \o ProcName(form.name) \o L_form_call, L_verify, <<>> >>

\* generate_helium_script with the procedures in the reverse order of the forms
GenerateHeliumScriptReversed(r) ==
    IF ~r.success \/ r.forms = <<>>
    THEN << L_no_forms >>
    ELSE << L_header, L_import_helium, L_import_sleep, <<>>, L_nav_comment,
            L_go_to \o r.url \o L_close_call, L_sleep2, <<>> >>
         \o ConcatAll([k \in 1..Len(r.forms) |-> FormLines(r.forms[Len(r.forms) + 1 - k])])
         \o << L_main_comment, L_if_main >>
         \o ConcatAll([k \in 1..Len(r.forms) |-> MainLines(r.forms[k])])
         \o << L_close_comment, L_kill >>

\* generate_helium_script without the test of the forms list
GenerateHeliumScriptUnlessFailed(r) ==
    IF ~r.success
    THEN << L_no_forms >>
    ELSE << L_header, L_import_helium, L_import_sleep, <<>>, L_nav_comment,
            L_go_to \o r.url \o L_close_call, L_sleep2, <<>> >>
         \o ConcatAll([k \in 1..Len(r.forms) |-> FormLines(r.forms[k])])
         \o << L_main_comment, L_if_main >>
         \o ConcatAll([k \in 1..Len(r.forms) |-> MainLines(r.forms[k])])
         \o << L_close_comment, L_kill >>

\* generate_helium_script with the calls of the main section in the reverse
\* order of the forms
GenerateHeliumScriptMainReversed(r) ==
    IF ~r.success \/ r.forms = <<>>
    THEN << L_no_forms >>
    ELSE << L_header, L_import_helium, L_import_sleep, <<>>, L_nav_comment,
            L_go_to \o r.url \o L_close_call, L_sleep2, <<>> >>
         \o ConcatAll([k \in 1..Len(r.forms) |-> FormLines(r.forms[k])])
         \o << L_main_comment, L_if_main >>
         \o ConcatAll([k \in 1..Len(r.forms) |-> MainLines(r.forms[Len(r.forms) + 1 - k])])
         \o << L_close_comment, L_kill >>

\* generate_helium_script(analysis_result): the lines that "\n".join makes the script
GenerateHeliumScript(r) ==
    IF ~r.success \/ r.forms = <<>>
    THEN << L_no_forms >>
    ELSE << L_header, L_import_helium, L_import_sleep, <<>>, L_nav_comment,
            L_go_to \o r.url \o L_close_call, L_sleep2, <<>> >>
         \o ConcatAll([k \in 1..Len(r.forms) |-> FormLines(r.forms[k])])
         \o << L_main_comment, L_if_main >>
         \o ConcatAll([k \in 1..Len(r.forms) |-> MainLines(r.forms[k])])
         \o << L_close_comment, L_kill >>

(***************************************************************************)
(* to_json / save_result: json.dumps(analysis_result, indent=2)            *)
(***************************************************************************)
\* A JSON value: t is "str", "bool", "null", "arr" or "obj"; an object holds
\* its keys in insertion order, with the values in items.
JStr(s) == [t |-> "str", s |-> s, b |-> FALSE, items |-> <<>>, keys |-> <<>>]
JBool(b) == [t |-> "bool", s |-> <<>>, b |-> b, items |-> <<>>, keys |-> <<>>]
JNull == [t |-> "null", s |-> <<>>, b |-> FALSE, items |-> <<>>, keys |-> <<>>]
JArr(items) == [t |-> "arr", s |-> <<>>, b |-> FALSE, items |-> items, keys |-> <<>>]
JObj(keys, items) == [t |-> "obj", s |-> <<>>, b |-> FALSE, items |-> items, keys |-> keys]

JOptional(o) == IF o.isNone THEN JNull ELSE JStr(o.s)
JStrList(ss) == JArr([k \in 1..Len(ss) |-> JStr(ss[k])])

\* the dict FormField.to_dict() builds, as json.dumps walks it
FieldValue(field) ==
    JObj(<<K_name, K_id, K_type, K_label, K_required, K_options, K_placeholder>>,
         <<JStr(field.name), JStr(field.id), JStr(field.type), JStr(field.label),
           JBool(field.required), JStrList(field.options), JStr(field.placeholder)>>)

\* the dict Form.to_dict() builds
FormValue(form) ==
    JObj(<<K_name, K_id, K_fields, K_submit_button>>,
         <<JStr(form.name), JStr(form.id),
           JArr([k \in 1..Len(form.fields) |-> FieldValue(form.fields[k])]),
           JOptional(form.submit_button)>>)

\* the result dict of analyze_page
ResultValue(r) ==
    JObj(<<K_success, K_url, K_forms, K_screenshots, K_error>>,
         <<JBool(r.success), JStr(r.url),
           JArr([k \in 1..Len(r.forms) |-> FormValue(r.forms[k])]),
           JStrList(r.screenshots), JOptional(r.error)>>)

\* no escape at all
EscapeCharNone(c) == <<c>>

\* json's escape of one character of a str
EscapeChar(c) ==
    IF c = "\"" THEN <<"\\", "\"">>
    ELSE IF c = "\\" THEN <<"\\", "\\">>
    ELSE IF c = "\n" THEN <<"\\", "n">>
    ELSE IF c = "\t" THEN <<"\\", "t">>
    ELSE <<c>>

\* a str as json.dumps writes it
EncodeString(s) ==
    <<"\"">> \o ConcatAll([k \in 1..Len(s) |-> EscapeChar(s[k])]) \o <<"\"">>

\* a line break and the indentation of a nesting level, two spaces a level
NewlineIndent(level) == <<"\n">> \o [k \in 1..(2 * level) |-> " "]

RECURSIVE Encode(_, _)
\* a JSON value as json.dumps(..., indent=2) writes it at a nesting level
Encode(v, level) ==
    IF v.t = "str" THEN EncodeString(v.s)
    ELSE IF v.t = "bool" THEN (IF v.b THEN J_true ELSE J_false)
    ELSE IF v.t = "null" THEN J_null
    ELSE IF v.items = <<>> THEN (IF v.t = "arr" THEN <<"[", "]">> ELSE <<"{", "}">>)
    ELSE LET Item(k) ==
                 (IF k > 1 THEN <<",">> ELSE <<>>)
                 \o NewlineIndent(level + 1)
                 \o (IF v.t = "obj" THEN EncodeString(v.keys[k]) \o <<":", " ">> ELSE <<>>)
                 \o Encode(v.items[k], level + 1)
         IN (IF v.t = "arr" THEN <<"[">> ELSE <<"{">>)
            \o ConcatAll([k \in 1..Len(v.items) |-> Item(k)])
            \o NewlineIndent(level)
            \o (IF v.t = "arr" THEN <<"]">> ELSE <<"}">>)

\* to_json(analysis_result)
ToJson(r) == Encode(ResultValue(r), 0)

(***************************************************************************)
(* Reading the JSON text back: json.loads                                  *)
(***************************************************************************)
Parsed(ok, v, pos) == [ok |-> ok, v |-> v, pos |-> pos]
ParseFail(pos) == Parsed(FALSE, JNull, pos)

RECURSIVE SkipWs(_, _)
\* the first position at or after p that holds no white space
SkipWs(txt, p) ==
    IF p <= Len(txt) /\ txt[p] \in {" ", "\n", "\t", "\r"} THEN SkipWs(txt, p + 1) ELSE p

\* whether the literal lit stands at position p
HasAt(txt, p, lit) ==
    p + Len(lit) - 1 <= Len(txt) /\ SubSeq(txt, p, p + Len(lit) - 1) = lit

\* the character an escape \c stands for
UnescapeChar(c) == IF c = "n" THEN "\n" ELSE IF c = "t" THEN "\t" ELSE c

RECURSIVE ParseString(_, _, _)
\* the str whose opening quote precedes p, with acc read so far
ParseString(txt, p, acc) ==
    IF p > Len(txt) THEN ParseFail(p)
    ELSE IF txt[p] = "\"" THEN Parsed(TRUE, JStr(acc), p + 1)
    ELSE IF txt[p] = "\\"
    THEN IF p + 1 > Len(txt) THEN ParseFail(p)
         ELSE ParseString(txt, p + 2, Append(acc, UnescapeChar(txt[p + 1])))
    ELSE ParseString(txt, p + 1, Append(acc, txt[p]))

RECURSIVE ParseValue(_, _)
RECURSIVE ParseArrayRest(_, _, _)
RECURSIVE ParseObjectRest(_, _, _, _)

\* the value that starts at or after p
ParseValue(txt, p) ==
    LET q == SkipWs(txt, p)
    IN IF q > Len(txt) THEN ParseFail(q)
       ELSE IF txt[q] = "\"" THEN ParseString(txt, q + 1, <<>>)
       ELSE IF txt[q] = "[" THEN ParseArrayRest(txt, q + 1, <<>>)
       ELSE IF txt[q] = "{" THEN ParseObjectRest(txt, q + 1, <<>>, <<>>)
       ELSE IF HasAt(txt, q, J_true) THEN Parsed(TRUE, JBool(TRUE), q + Len(J_true))
       ELSE IF HasAt(txt, q, J_false) THEN Parsed(TRUE, JBool(FALSE), q + Len(J_false))
       ELSE IF HasAt(txt, q, J_null) THEN Parsed(TRUE, JNull, q + Len(J_null))
       ELSE ParseFail(q)

\* the rest of an array after its "[" or after a ",", with items read so far
ParseArrayRest(txt, p, items) ==
    LET q == SkipWs(txt, p)
    IN IF q > Len(txt) THEN ParseFail(q)
       ELSE IF items = <<>> /\ txt[q] = "]" THEN Parsed(TRUE, JArr(<<>>), q + 1)
       ELSE LET r == ParseValue(txt, q)
                e == SkipWs(txt, r.pos)
            IN IF ~r.ok \/ e > Len(txt) THEN ParseFail(e)
               ELSE IF txt[e] = "," THEN ParseArrayRest(txt, e + 1, Append(items, r.v))
               ELSE IF txt[e] = "]" THEN Parsed(TRUE, JArr(Append(items, r.v)), e + 1)
               ELSE ParseFail(e)

\* the rest of an object after its "{" or after a ","
ParseObjectRest(txt, p, keys, items) ==
    LET q == SkipWs(txt, p)
    IN IF q > Len(txt) THEN ParseFail(q)
       ELSE IF keys = <<>> /\ txt[q] = "}" THEN Parsed(TRUE, JObj(<<>>, <<>>), q + 1)
       ELSE IF txt[q] # "\"" THEN ParseFail(q)
       ELSE LET k == ParseString(txt, q + 1, <<>>)
                c == SkipWs(txt, k.pos)
            IN IF ~k.ok \/ c > Len(txt) THEN ParseFail(c)
               ELSE IF txt[c] # ":" THEN ParseFail(c)
               ELSE LET r == ParseValue(txt, c + 1)
                        e == SkipWs(txt, r.pos)
                    IN IF ~r.ok \/ e > Len(txt) THEN ParseFail(e)
                       ELSE IF txt[e] = ","
                       THEN ParseObjectRest(txt, e + 1, Append(keys, k.v.s), Append(items, r.v))
                       ELSE IF txt[e] = "}"
                       THEN Parsed(TRUE, JObj(Append(keys, k.v.s), Append(items, r.v)), e + 1)
                       ELSE ParseFail(e)

\* json.loads(text): the value, and whether the whole text is one value
JsonLoads(txt) ==
    LET r == ParseValue(txt, 1)
    IN [ok |-> r.ok /\ SkipWs(txt, r.pos) = Len(txt) + 1, v |-> r.v]

\* d[key] of a parsed object; null when the key is absent
Get(obj, key) ==
    LET hits == {k \in 1..Len(obj.keys) : obj.keys[k] = key}
    IN IF obj.t = "obj" /\ hits # {} THEN obj.items[CHOOSE k \in hits : TRUE] ELSE JNull

(***************************************************************************)
(* The analyzer, one analyze_page call after another                       *)
(***************************************************************************)
VARIABLES
    page,          \* the page at the URL: its form-reveal buttons
    may_fail,      \* the operations of the browser that can fail on this page
    driver,        \* self.driver: "None" or "WebDriver"
    browser,       \* the browser session helium holds: "none", "live" or "dead"
    pc,            \* where the caller and analyze_page stand
    result,        \* the result dict of the call
    forms,         \* identify_forms: its list of Form objects
    current_form,  \* identify_forms: the Form being built
    i,             \* identify_forms: the index of the button being processed
    j,             \* _extract_form_fields: the index of the next input
    failed,        \* the operations that failed during the call
    faults,        \* how many operations failed during the call
    written,       \* the screenshot files written during the call
    attempts,      \* the operations attempted during the call, in order
    json_text,     \* what to_json / save_result wrote
    script,        \* what generate_helium_script returned
    memory,        \* web_browser.py: agent.memory.steps of the running agent
    initialized    \* web_browser.py: what the last initialize_browser() returned

vars == <<page, may_fail, driver, browser, pc, result, forms, current_form, i, j,
          failed, faults, written, attempts, json_text, script, memory, initialized>>

\* The operations that can fail: initialize_browser, helium.go_to,
\* save_screenshot, the wait for the page and the lookup of the buttons, a
\* button's click, the lookup of the container, the element lists of
\* _extract_form_fields, a lookup in _process_input_field, a lookup in the
\* textarea or select loop, the lookup of the submit buttons, kill_browser.
AllOps == {"init", "nav", "shot", "wait", "click", "container", "lists", "input",
           "rest", "submit", "kill"}

\* the failures inside _extract_form_fields, which it catches itself
ExtractOps == {"lists", "input", "rest"}

\* the failures that reach identify_forms' except clause
IdentifyOps == {"wait", "click", "container", "submit"}

\* one attempt of operation op, at button bi and at element ei of its container
\* (0 where the operation belongs to no button or to no element)
Attempt(op, bi, ei) == <<op, bi, ei>>

NoForm == Form(<<>>, <<>>, <<>>, None)

\* the result dict analyze_page starts from
NewResult(url) ==
    [success |-> FALSE, url |-> url, forms |-> <<>>, screenshots |-> <<>>, error |-> None]

\* FormAnalyzer.__init__, before the first call
InitOn(pages, ops) ==
    /\ page \in pages
    /\ may_fail = ops
    /\ driver = "None"
    /\ browser = "none"
    /\ pc = "idle"
    /\ result = NewResult(U_localhost)
    /\ forms = <<>>
    /\ current_form = NoForm
    /\ i = 0
    /\ j = 0
    /\ failed = {}
    /\ faults = 0
    /\ written = {}
    /\ attempts = <<>>
    /\ json_text = <<>>
    /\ script = <<>>
    /\ memory = <<>>
    /\ initialized = "None"

\* pages of several forms, where any operation can fail
Init == InitOn(CataloguePages, AllOps)

\* pages of one form with any elements, where the lookups of the extraction can fail
InitForm == InitOn(FormPages, ExtractOps)

\* the operations of F fail in this step, and no other
Fault(F) ==
    /\ F \subseteq may_fail
    /\ faults + Cardinality(F) <= MaxFaults
    /\ faults' = faults + Cardinality(F)
    /\ failed' = failed \cup F

\* the file take_screenshot(name) writes
ScreenshotPath(name) == P_dir \o name \o P_png

\* the name of the screenshot of a revealed form
FormScreenshotName(form_name) == ProcName(form_name) \o P_form_suffix

\* the container the click on button k reveals
Revealed(k) == page[k].container

\* the caller calls analyze_page(url): the result dict is created
AnalyzeStart ==
    /\ pc \in {"idle", "scripted", "raised"}
    /\ result' = NewResult(U_localhost)
    /\ failed' = {}
    /\ faults' = 0
    /\ forms' = <<>>
    /\ current_form' = NoForm
    /\ i' = 0
    /\ j' = 0
    /\ written' = {}
    /\ attempts' = <<>>
    /\ json_text' = <<>>
    /\ script' = <<>>
    /\ pc' = "navigate"
    /\ UNCHANGED <<initialized, memory, page, may_fail, driver, browser>>

\* navigate_to calling helium.go_to a second time when the first call failed
NavigateRetrying ==
    /\ pc = "navigate"
    /\ \E F \in {{}, {"init"}, {"nav"}} :
         /\ "init" \in F => driver = "None"
         /\ IF driver # "None" /\ browser # "live"
            THEN F = {"nav"} /\ failed' = failed \cup F /\ UNCHANGED faults
            ELSE Fault(F)
         /\ IF "init" \in F
            THEN UNCHANGED <<driver, browser>>
            ELSE /\ driver' = "WebDriver"
                 /\ browser' = IF driver = "None" THEN "live" ELSE browser
         /\ IF F = {}
            THEN /\ pc' = "screenshot"
                 /\ UNCHANGED result
            ELSE /\ result' = [result EXCEPT !.error = Some(E_navigate)]
                 /\ pc' = "finally"
         /\ attempts' = attempts
                \o (IF driver = "None" THEN <<Attempt("init", 0, 0)>> ELSE <<>>)
                \o (IF "init" \in F THEN <<>> ELSE <<Attempt("nav", 0, 0)>>)
                \o (IF "nav" \in F THEN <<Attempt("nav", 0, 0)>> ELSE <<>>)
    /\ UNCHANGED <<initialized, memory, page, may_fail, forms, current_form, i, j, written, json_text, script>>

\* navigate_to(url), with initialize_browser() when there is no driver; on
\* False analyze_page sets the error and returns.  go_to fails on a dead browser.
Navigate ==
    /\ pc = "navigate"
    /\ \E F \in {{}, {"init"}, {"nav"}} :
         /\ "init" \in F => driver = "None"
         /\ IF driver # "None" /\ browser # "live"
            THEN F = {"nav"} /\ failed' = failed \cup F /\ UNCHANGED faults
            ELSE Fault(F)
         /\ IF "init" \in F
            THEN UNCHANGED <<driver, browser>>
            ELSE /\ driver' = "WebDriver"
                 /\ browser' = IF driver = "None" THEN "live" ELSE browser
         /\ IF F = {}
            THEN /\ pc' = "screenshot"
                 /\ UNCHANGED result
            ELSE /\ result' = [result EXCEPT !.error = Some(E_navigate)]
                 /\ pc' = "finally"
         /\ attempts' = attempts
                \o (IF driver = "None" THEN <<Attempt("init", 0, 0)>> ELSE <<>>)
                \o (IF "init" \in F THEN <<>> ELSE <<Attempt("nav", 0, 0)>>)
    /\ UNCHANGED <<initialized, memory, page, may_fail, forms, current_form, i, j, written, json_text, script>>

\* full_screenshot = take_screenshot("full_page"), appended when not None
TakeFullScreenshot ==
    /\ pc = "screenshot"
    /\ \E F \in {{}, {"shot"}} :
         /\ Fault(F)
         /\ IF driver # "None" /\ F = {}
            THEN /\ written' = written \cup {ScreenshotPath(P_full_page)}
                 /\ result' = [result EXCEPT
                                  !.screenshots = Append(@, ScreenshotPath(P_full_page))]
            ELSE UNCHANGED <<written, result>>
    /\ attempts' = IF driver # "None" THEN Append(attempts, Attempt("shot", 0, 0))
                   ELSE attempts
    /\ pc' = "identify"
    /\ UNCHANGED <<initialized, memory, page, may_fail, driver, browser, forms, current_form, i, j,
                   json_text, script>>

\* identify_forms up to its loop: the wait for the page and the lookup of the
\* form-reveal buttons; a failure returns [], as does a missing driver
IdentifyBegin ==
    /\ pc = "identify"
    /\ forms' = <<>>
    /\ \E F \in {{}, {"wait"}} :
         /\ Fault(F)
         /\ IF driver # "None" /\ F = {}
            THEN /\ i' = 1
                 /\ pc' = IF Len(page) = 0 THEN "convert" ELSE "button"
            ELSE /\ pc' = "convert"
                 /\ UNCHANGED i
    /\ attempts' = IF driver # "None" THEN Append(attempts, Attempt("wait", 0, 0))
                   ELSE attempts
    /\ UNCHANGED <<initialized, memory, page, may_fail, driver, browser, result, current_form, j, written,
                   json_text, script>>

\* one turn of the loop up to the element lists of _extract_form_fields: the
\* click, the screenshot of the form, the lookup of the container, the Form
\* object.  A failing click or container lookup makes identify_forms return [];
\* failing element lists leave the form without fields.
ClickButton ==
    /\ pc = "button"
    /\ LET form_name == StrStrip(page[i].text)
       IN \E F \in SUBSET {"click", "shot", "container", "lists"} :
            /\ Fault(F)
            /\ "click" \in F => F = {"click"}
            /\ "container" \in F => "lists" \notin F
            /\ written' = IF "click" \notin F /\ "shot" \notin F
                          THEN written \cup {ScreenshotPath(FormScreenshotName(form_name))}
                          ELSE written
            /\ IF "click" \in F \/ "container" \in F
               THEN /\ forms' = <<>>
                    /\ pc' = "convert"
                    /\ UNCHANGED <<current_form, j>>
               ELSE /\ current_form' = Form(form_name, ProcName(form_name), <<>>, None)
                    /\ j' = 1
                    /\ pc' = IF "lists" \in F THEN "submit" ELSE "inputs"
                    /\ UNCHANGED forms
            /\ attempts' = attempts \o <<Attempt("click", i, 0)>>
                   \o (IF "click" \in F THEN <<>>
                       ELSE <<Attempt("shot", i, 0), Attempt("container", i, 0)>>)
                   \o (IF "click" \in F \/ "container" \in F THEN <<>>
                       ELSE <<Attempt("lists", i, 0)>>)
    /\ UNCHANGED <<initialized, memory, page, may_fail, driver, browser, result, i, json_text, script>>

\* the loop over the inputs without the try block of _process_input_field: a
\* failing lookup reaches the except clause of _extract_form_fields and ends
\* the extraction
ProcessInputAborting ==
    /\ pc = "inputs"
    /\ j <= Len(Inputs(Revealed(i)))
    /\ \E F \in {{}, {"input"}} :
         /\ Fault(F)
         /\ current_form' =
                IF F = {}
                THEN [current_form EXCEPT
                         !.fields = ProcessInputField(Inputs(Revealed(i))[j], @)]
                ELSE current_form
         /\ pc' = IF F = {} THEN pc ELSE "submit"
    /\ j' = j + 1
    /\ attempts' = Append(attempts, Attempt("input", i, j))
    /\ UNCHANGED <<initialized, memory, page, may_fail, driver, browser, result, forms, i, written,
                   json_text, script>>

\* _process_input_field on the next input; a failing lookup skips the input
ProcessInput ==
    /\ pc = "inputs"
    /\ j <= Len(Inputs(Revealed(i)))
    /\ \E F \in {{}, {"input"}} :
         /\ Fault(F)
         /\ current_form' =
                IF F = {}
                THEN [current_form EXCEPT
                         !.fields = ProcessInputField(Inputs(Revealed(i))[j], @)]
                ELSE current_form
    /\ j' = j + 1
    /\ attempts' = Append(attempts, Attempt("input", i, j))
    /\ UNCHANGED <<initialized, memory, page, may_fail, driver, browser, pc, result, forms, i, written,
                   json_text, script>>

\* the textarea loop and the select loop: n elements are processed, and a
\* failing lookup at the next ends the extraction with the fields appended so far
ProcessRest ==
    /\ pc = "inputs"
    /\ j > Len(Inputs(Revealed(i)))
    /\ LET rest == RestFields(Revealed(i))
       IN \E n \in 0..Len(rest) :
            /\ Fault(IF n < Len(rest) THEN {"rest"} ELSE {})
            /\ current_form' = [current_form EXCEPT !.fields = @ \o SubSeq(rest, 1, n)]
            /\ attempts' = attempts
                   \o [k \in 1..(IF n < Len(rest) THEN n + 1 ELSE n) |->
                          Attempt("rest", i, k)]
    /\ pc' = "submit"
    /\ UNCHANGED <<initialized, memory, page, may_fail, driver, browser, result, forms, i, j, written,
                   json_text, script>>

\* the lookup of the submit buttons, writing the button found into every Form
\* of the list as well
FindSubmitOnAll ==
    /\ pc = "submit"
    /\ \E F \in {{}, {"submit"}} :
         /\ Fault(F)
         /\ IF F = {}
            THEN /\ LET submits == Revealed(i).submits
                        done == [current_form EXCEPT
                                    !.submit_button = IF submits # <<>>
                                                      THEN Some(submits[1]) ELSE None]
                    IN /\ current_form' = done
                       /\ forms' = Append([k \in 1..Len(forms) |->
                                              [forms[k] EXCEPT
                                                  !.submit_button = done.submit_button]],
                                          done)
                 /\ i' = i + 1
                 /\ pc' = IF i = Len(page) THEN "convert" ELSE "button"
            ELSE /\ forms' = <<>>
                 /\ pc' = "convert"
                 /\ UNCHANGED <<current_form, i>>
    /\ attempts' = Append(attempts, Attempt("submit", i, 0))
    /\ UNCHANGED <<initialized, memory, page, may_fail, driver, browser, result, j, written, json_text, script>>

\* the lookup of the submit buttons and forms.append(current_form); after the
\* last button identify_forms returns forms, and [] when the lookup fails
FindSubmit ==
    /\ pc = "submit"
    /\ \E F \in {{}, {"submit"}} :
         /\ Fault(F)
         /\ IF F = {}
            THEN /\ LET submits == Revealed(i).submits
                        done == [current_form EXCEPT
                                    !.submit_button = IF submits # <<>>
                                                      THEN Some(submits[1]) ELSE None]
                    IN /\ current_form' = done
                       /\ forms' = Append(forms, done)
                 /\ i' = i + 1
                 /\ pc' = IF i = Len(page) THEN "convert" ELSE "button"
            ELSE /\ forms' = <<>>
                 /\ pc' = "convert"
                 /\ UNCHANGED <<current_form, i>>
    /\ attempts' = Append(attempts, Attempt("submit", i, 0))
    /\ UNCHANGED <<initialized, memory, page, may_fail, driver, browser, result, j, written, json_text, script>>

\* the conversion with success only for a list that holds a form
ConvertWhenForms ==
    /\ pc = "convert"
    /\ result' = [result EXCEPT
                     !.forms = [k \in 1..Len(forms) |-> FormToDict(forms[k])],
                     !.success = (forms # <<>>)]
    /\ pc' = "finally"
    /\ UNCHANGED <<initialized, memory, page, may_fail, driver, browser, forms, current_form, i, j, failed,
                   faults, written, attempts, json_text, script>>

\* result["forms"] = [form.to_dict() for form in forms]; result["success"] = True
Convert ==
    /\ pc = "convert"
    /\ result' = [result EXCEPT
                     !.forms = [k \in 1..Len(forms) |-> FormToDict(forms[k])],
                     !.success = TRUE]
    /\ pc' = "finally"
    /\ UNCHANGED <<initialized, memory, page, may_fail, driver, browser, forms, current_form, i, j, failed,
                   faults, written, attempts, json_text, script>>

\* the clean-up at the end of the try block instead: skipped on an early return
FinallyAfterSuccessOnly ==
    /\ pc = "finally"
    /\ \E F \in {{}, {"kill"}} :
         /\ Fault(F)
         /\ "kill" \in F => driver # "None" /\ result.success
         /\ IF F = {}
            THEN /\ driver' = IF result.success THEN "None" ELSE driver
                 /\ browser' = IF driver # "None" /\ result.success THEN "none" ELSE browser
                 /\ pc' = "done"
            ELSE /\ browser' \in (IF browser = "live" THEN {"live", "dead"} ELSE {browser})
                 /\ pc' = "raised"
                 /\ UNCHANGED driver
    /\ attempts' = IF driver # "None" THEN Append(attempts, Attempt("kill", 0, 0))
                   ELSE attempts
    /\ UNCHANGED <<initialized, memory, page, may_fail, result, forms, current_form, i, j, written,
                   json_text, script>>

\* the finally clause setting self.driver = None before helium.kill_browser():
\* a kill_browser that raises leaves no handle to a browser that may live on
FinallyHandleFirst ==
    /\ pc = "finally"
    /\ \E F \in {{}, {"kill"}} :
         /\ Fault(F)
         /\ "kill" \in F => driver # "None"
         /\ IF F = {}
            THEN /\ driver' = "None"
                 /\ browser' = IF driver # "None" THEN "none" ELSE browser
                 /\ pc' = "done"
            ELSE /\ browser' \in (IF browser = "live" THEN {"live", "dead"} ELSE {browser})
                 /\ pc' = "raised"
                 /\ driver' = "None"
    /\ attempts' = IF driver # "None" THEN Append(attempts, Attempt("kill", 0, 0))
                   ELSE attempts
    /\ UNCHANGED <<initialized, memory, page, may_fail, result, forms, current_form, i, j, written,
                   json_text, script>>

\* the finally clause: with a driver, helium.kill_browser() and
\* self.driver = None; then analyze_page returns the result.  kill_browser
\* raising leaves the clause at once: the exception replaces the return, the
\* driver stays, and a browser that was live is gone or not.
Finally ==
    /\ pc = "finally"
    /\ \E F \in {{}, {"kill"}} :
         /\ Fault(F)
         /\ "kill" \in F => driver # "None"
         /\ IF F = {}
            THEN /\ driver' = "None"
                 /\ browser' = IF driver # "None" THEN "none" ELSE browser
                 /\ pc' = "done"
            ELSE /\ browser' \in (IF browser = "live" THEN {"live", "dead"} ELSE {browser})
                 /\ pc' = "raised"
                 /\ UNCHANGED driver
    /\ attempts' = IF driver # "None" THEN Append(attempts, Attempt("kill", 0, 0))
                   ELSE attempts
    /\ UNCHANGED <<initialized, memory, page, may_fail, result, forms, current_form, i, j, written,
                   json_text, script>>

\* save_result(result) / to_json(result)
SaveResult ==
    /\ pc = "done"
    /\ json_text' = ToJson(result)
    /\ pc' = "saved"
    /\ UNCHANGED <<initialized, memory, page, may_fail, driver, browser, result, forms, current_form, i, j,
                   failed, faults, written, attempts, script>>

\* script = generate_helium_script(result)
GenerateScript ==
    /\ pc = "saved"
    /\ script' = GenerateHeliumScript(result)
    /\ pc' = "scripted"
    /\ UNCHANGED <<initialized, memory, page, may_fail, driver, browser, result, forms, current_form, i, j,
                   failed, faults, written, attempts, json_text>>

Next ==
    \/ AnalyzeStart
    \/ Navigate
    \/ TakeFullScreenshot
    \/ IdentifyBegin
    \/ ClickButton
    \/ ProcessInput
    \/ ProcessRest
    \/ FindSubmit
    \/ Convert
    \/ Finally
    \/ SaveResult
    \/ GenerateScript

Spec == Init /\ [][Next]_vars

FormSpec == InitForm /\ [][Next]_vars

\* pages of either kind
AllSpec == (Init \/ InitForm) /\ [][Next]_vars

(***************************************************************************)
(* generate_helium_script on its own: a caller that holds a result dict    *)
(***************************************************************************)
\* the types of the fields of such a result: those generate_helium_script
\* knows, and 'number', the type attribute of an <input type="number">
SampleTypes == {T_text, T_textarea, T_select, T_checkbox, T_radio, S_number}

SampleOptions == {<<>>, <<S_a>>, <<S_Pick, S_x, S_quote>>}

SampleFields ==
    {FormField(S_g, S_g, t, S_A, FALSE, o, <<>>) : t \in SampleTypes, o \in SampleOptions}

\* forms with no submit button, with one of empty text, and with one of text 'Go'
SampleForms(name, n) ==
    {Form(name, ProcName(name), fs, sb) :
        fs \in SeqsUpTo(SampleFields, n), sb \in {None, Some(<<>>), Some(S_Go)}}

\* results of no form, of one form, and of two forms of one field and a submit button
SampleResults ==
    LET one == {<<f>> : f \in SampleForms(S_Log_In, MaxFields)}
        two == {<<f, g>> : f \in {h \in SampleForms(S_Log_In, 1) : h.submit_button = Some(S_Go)},
                           g \in {h \in SampleForms(S_Sign_Up, 1) : h.submit_button = Some(S_Go)}}
    IN {[success |-> ok, url |-> U_localhost,
         forms |-> [k \in 1..Len(fs) |-> FormToDict(fs[k])],
         screenshots |-> <<>>, error |-> None] :
           ok \in BOOLEAN, fs \in {<<>>} \cup one \cup two}

\* the caller holds a result, on an analyzer without a browser
InitScript ==
    /\ page = <<>>
    /\ may_fail = {}
    /\ driver = "None"
    /\ browser = "none"
    /\ pc = "done"
    /\ result \in SampleResults
    /\ forms = <<>>
    /\ current_form = NoForm
    /\ i = 0
    /\ j = 0
    /\ failed = {}
    /\ faults = 0
    /\ written = {}
    /\ attempts = <<>>
    /\ json_text = <<>>
    /\ script = <<>>
    /\ memory = <<>>
    /\ initialized = "None"

\* generate_helium_script writing after the lines an earlier call left
RegenerateAppending ==
    /\ pc = "scripted"
    /\ \E d \in {"None", "WebDriver"} :
         /\ driver' = d
         /\ browser' = IF d = "None" THEN "none" ELSE "live"
    /\ script' = script \o GenerateHeliumScript(result)
    /\ UNCHANGED <<initialized, memory, page, may_fail, pc, result, forms, current_form, i, j, failed, faults,
                   written, attempts, json_text>>

\* generate_helium_script(result) once more with the same result, on an
\* analyzer whose driver handle is None or a WebDriver
Regenerate ==
    /\ pc = "scripted"
    /\ \E d \in {"None", "WebDriver"} :
         /\ driver' = d
         /\ browser' = IF d = "None" THEN "none" ELSE "live"
    /\ script' = GenerateHeliumScript(result)
    /\ UNCHANGED <<initialized, memory, page, may_fail, pc, result, forms, current_form, i, j, failed, faults,
                   written, attempts, json_text>>

ScriptNext ==
    \/ SaveResult
    \/ GenerateScript
    \/ Regenerate

ScriptSpec == InitScript /\ [][ScriptNext]_vars

(***************************************************************************)
(* web_browser.py: the module-level driver handle, the agent's memory and  *)
(* the save_screenshot step callback                                       *)
(***************************************************************************)
\* the first step of a run's memory: not an ActionStep
TaskStep == [kind |-> "TaskStep"]

\* the ActionStep the agent hands to its step callbacks: its number, the
\* observations its execution left (None or text) and no image yet
ActionStep(n, obs) ==
    [kind |-> "ActionStep", step_number |-> n, observations |-> obs,
     observations_images |-> None]

\* isinstance(step, ActionStep)
IsActionStep(step) == step.kind = "ActionStep"

ActionSteps(steps) == SelectSeq(steps, IsActionStep)

\* the lines save_screenshot adds to the observations of a step
UrlTitleInfo == <<"Current URL", "Page title">>

\* how the try block of save_screenshot ends: the capture raised, the save
\* to disk raised after the image was attached, or nothing raised
ScreenshotOutcomes == {"capture_raised", "save_raised", "captured"}

\* save_screenshot keeping the image of one step more
SaveScreenshotKeepThree(steps, p, d, outcome) ==
    IF d = "None"
    THEN steps
    ELSE LET current_step == steps[p].step_number
             Lean(step) ==
                 IF IsActionStep(step) /\ step.step_number <= current_step - 3
                 THEN [step EXCEPT !.observations_images = None]
                 ELSE step
             Shot(step) ==
                 CASE outcome = "capture_raised" -> step
                   [] outcome = "save_raised" ->
                        [step EXCEPT !.observations_images = Some(<<"image">>)]
                   [] outcome = "captured" ->
                        [step EXCEPT !.observations_images = Some(<<"image">>),
                                     !.observations =
                                         IF step.observations.isNone
                                         THEN Some(UrlTitleInfo)
                                         ELSE Some(step.observations.s \o UrlTitleInfo)]
         IN  [n \in 1..Len(steps) |-> IF n = p THEN Shot(Lean(steps[n])) ELSE Lean(steps[n])]

\* save_screenshot(memory_step, agent): the steps of agent.memory after the
\* callback ran for the step at place p, with the module's driver handle d
SaveScreenshot(steps, p, d, outcome) ==
    IF d = "None"
    THEN steps
    ELSE LET current_step == steps[p].step_number
             Lean(step) ==
                 IF IsActionStep(step) /\ step.step_number <= current_step - 2
                 THEN [step EXCEPT !.observations_images = None]
                 ELSE step
             Shot(step) ==
                 CASE outcome = "capture_raised" -> step
                   [] outcome = "save_raised" ->
                        [step EXCEPT !.observations_images = Some(<<"image">>)]
                   [] outcome = "captured" ->
                        [step EXCEPT !.observations_images = Some(<<"image">>),
                                     !.observations =
                                         IF step.observations.isNone
                                         THEN Some(UrlTitleInfo)
                                         ELSE Some(step.observations.s \o UrlTitleInfo)]
         IN  [n \in 1..Len(steps) |-> IF n = p THEN Shot(Lean(steps[n])) ELSE Lean(steps[n])]

\* the module as imported: driver = None, no browser, no agent
InitBrowser ==
    /\ page = <<>>
    /\ may_fail = {}
    /\ driver = "None"
    /\ browser = "none"
    /\ pc = "loaded"
    /\ result = NewResult(U_localhost)
    /\ forms = <<>>
    /\ current_form = NoForm
    /\ i = 0
    /\ j = 0
    /\ failed = {}
    /\ faults = 0
    /\ written = {}
    /\ attempts = <<>>
    /\ json_text = <<>>
    /\ script = <<>>
    /\ memory = <<>>
    /\ initialized = "None"

\* the handle and the session after initialize_browser() returned ret
InitializedTo(ret, d, b) ==
    IF driver # "None"
    THEN ret = "True" /\ d = driver /\ b = browser
    ELSE \/ ret = "True" /\ d = "WebDriver" /\ b = "live"
         \/ ret = "False" /\ d = driver /\ b = browser

\* a caller's initialize_browser()
InitializeBrowser ==
    /\ pc = "loaded"
    /\ \E ret \in {"True", "False"} :
         /\ InitializedTo(ret, driver', browser')
         /\ initialized' = ret
    /\ UNCHANGED <<memory, page, may_fail, pc, result, forms, current_form, i, j,
                   failed, faults, written, attempts, json_text, script>>

\* test_browser(): after initialize_browser() returned True, the finally
\* clause kills the browser whether the try block raised or not; the driver
\* the function assigns is its own local name
TestBrowser ==
    /\ pc = "loaded"
    /\ \E ret \in {"True", "False"}, d \in {"None", "WebDriver"},
          b \in {"none", "live", "dead"} :
         /\ InitializedTo(ret, d, b)
         /\ initialized' = ret
         /\ driver' = d
         /\ browser' = IF ret = "False" THEN b
                       ELSE IF b = "live" THEN "dead" ELSE b
    /\ UNCHANGED <<memory, page, may_fail, pc, result, forms, current_form, i, j,
                   failed, faults, written, attempts, json_text, script>>

\* run_with_feedback(...) up to the start of agent.run: it returns False
\* when initialize_browser, create_agent or setup_agent fails
RunWithFeedback ==
    /\ pc = "loaded"
    /\ \E ret \in {"True", "False"}, agent_ready \in BOOLEAN :
         /\ InitializedTo(ret, driver', browser')
         /\ initialized' = ret
         /\ IF ret = "True" /\ agent_ready
            THEN pc' = "running" /\ memory' = <<TaskStep>>
            ELSE UNCHANGED <<pc, memory>>
    /\ UNCHANGED <<page, may_fail, result, forms, current_form, i, j,
                   failed, faults, written, attempts, json_text, script>>

\* one step of agent.run: the agent's next ActionStep and the save_screenshot
\* callback for it; a killed browser gives no screenshot
AgentStep ==
    /\ pc = "running"
    /\ Len(ActionSteps(memory)) < MaxSteps
    /\ \E obs \in {None, Some(<<"logs">>)}, outcome \in ScreenshotOutcomes :
         /\ browser # "live" => outcome = "capture_raised"
         /\ memory' = SaveScreenshot(
                          Append(memory, ActionStep(Len(ActionSteps(memory)) + 1, obs)),
                          Len(memory) + 1, driver, outcome)
    /\ UNCHANGED <<initialized, page, may_fail, driver, browser, pc, result, forms,
                   current_form, i, j, failed, faults, written, attempts, json_text,
                   script>>

\* agent.run returns or raises and run_with_feedback returns: the agent and
\* its memory are gone, the browser stays
RunReturn ==
    /\ pc = "running"
    /\ pc' = "loaded"
    /\ memory' = <<>>
    /\ UNCHANGED <<initialized, page, may_fail, driver, browser, result, forms,
                   current_form, i, j, failed, faults, written, attempts, json_text,
                   script>>

BrowserNext ==
    \/ InitializeBrowser
    \/ TestBrowser
    \/ RunWithFeedback
    \/ AgentStep
    \/ RunReturn

BrowserSpec == InitBrowser /\ [][BrowserNext]_vars

(***************************************************************************)
(* Properties                                                              *)
(***************************************************************************)
\* analyze_page has returned its result to the caller
Returned == pc \in {"done", "saved", "scripted"}

\* n is t without its leading and trailing white space
IsStripOf(n, t) ==
    /\ n # <<>> => ~IsSpace(n[1]) /\ ~IsSpace(n[Len(n)])
    /\ \E a \in 0..Len(t) : \E b \in 0..(Len(t) - a) :
         /\ n = SubSeq(t, a + 1, Len(t) - b)
         /\ \A k \in 1..a : IsSpace(t[k])
         /\ \A k \in (Len(t) - b + 1)..Len(t) : IsSpace(t[k])

\* no lookup of identify_forms or of the extraction has failed in this call
NoLookupFailed == failed \cap (IdentifyOps \cup ExtractOps) = {}

\* C1: when identify_forms returns from a page of N form-reveal buttons on
\* which no element lookup failed, its list holds exactly N Forms, the k-th
\* named after the stripped text of the k-th button.
C1_OneFormPerButton ==
    (pc = "convert" /\ NoLookupFailed) =>
        /\ Len(forms) = Len(page)
        /\ \A k \in 1..Len(page) : IsStripOf(forms[k].name, page[k].text)

\* C1, reached: two buttons, the first with white space around its text
C1_Witness ==
    /\ pc = "convert" /\ NoLookupFailed
    /\ Len(page) = 2 /\ Len(forms) = 2
    /\ page[1].text = S_Login_Form /\ Len(forms[1].name) = Len(S_Login_Form) - 2

\* the type _process_input_field gives an input
InputType(e) == IF e.type = <<>> THEN T_text ELSE e.type

\* the inputs of container c, among its first n, that are checkboxes or radios named nm
GroupInputs(c, n, nm) ==
    {k \in 1..n : IsGroupType(InputType(Inputs(c)[k])) /\ Inputs(c)[k].name = nm}

\* those of them of type t
TypedGroupInputs(c, n, nm, t) ==
    {k \in GroupInputs(c, n, nm) : InputType(Inputs(c)[k]) = t}

\* the extraction of the revealed container has ended, and none of its lookups failed
Extracted == pc = "submit" /\ failed \cap ExtractOps = {}

\* C2 as stated: the checkbox and radio inputs of the container that share a
\* name are one FormField, with as many options as there are such inputs.
C2_OneFieldPerName ==
    Extracted =>
        \A e \in Elements :
            LET c == Revealed(i)
                ins == GroupInputs(c, Len(Inputs(c)), e.name)
                fs == {k \in 1..Len(current_form.fields) :
                          /\ IsGroupType(current_form.fields[k].field_type)
                          /\ current_form.fields[k].name = e.name}
            IN ins # {} =>
                  /\ Cardinality(fs) = 1
                  /\ \A k \in fs : Len(current_form.fields[k].options) = Cardinality(ins)

\* C2, amended: the inputs of the container that share a name and a type
\* (checkbox, or radio) are one FormField of that type, with as many options
\* as there are such inputs.
C2_OneFieldPerNameAndType ==
    Extracted =>
        \A e \in Elements : \A t \in {T_checkbox, T_radio} :
            LET c == Revealed(i)
                ins == TypedGroupInputs(c, Len(Inputs(c)), e.name, t)
                fs == {k \in 1..Len(current_form.fields) :
                          /\ current_form.fields[k].field_type = t
                          /\ current_form.fields[k].name = e.name}
            IN ins # {} =>
                  /\ Cardinality(fs) = 1
                  /\ \A k \in fs : Len(current_form.fields[k].options) = Cardinality(ins)

\* C2, reached: two checkboxes and a radio of one name, in two fields
C2_Witness ==
    /\ Extracted
    /\ Cardinality(TypedGroupInputs(Revealed(i), Len(Inputs(Revealed(i))), S_g, T_checkbox)) = 2
    /\ Cardinality(TypedGroupInputs(Revealed(i), Len(Inputs(Revealed(i))), S_g, T_radio)) = 1
    /\ Len(current_form.fields) = 2

\* the text next to a checkbox or radio: the first span of its parent label,
\* or that label's text
LabelTextOf(e) ==
    IF e.ptag # "label" THEN <<>>
    ELSE IF e.spans # <<>> THEN e.spans[1] ELSE e.ptext

\* the options the first n inputs of c give the group of name nm and type t
ExpectedOptions(c, n, nm, t) ==
    LET InGroup(e) == InputType(e) = t /\ e.name = nm
        g == SelectSeq(SubSeq(Inputs(c), 1, n), InGroup)
    IN [k \in 1..Len(g) |-> IF g[k].value # <<>> THEN g[k].value ELSE LabelTextOf(g[k])]

\* C3: at every point of the extraction the options of a checkbox or radio
\* field are the values (the label text for an empty value) of the inputs of
\* its group processed so far, in DOM order; so each input appends one entry
\* and none is reordered or removed.
C3_OptionsInDomOrder ==
    (pc \in {"inputs", "submit"} /\ failed \cap {"lists", "input"} = {}) =>
        LET c == Revealed(i)
            n == IF pc = "inputs" THEN j - 1 ELSE Len(Inputs(c))
        IN \A k \in 1..Len(current_form.fields) :
              LET f == current_form.fields[k]
              IN IsGroupType(f.field_type) =>
                    f.options = ExpectedOptions(c, n, f.name, f.field_type)

\* C3, reached: a checkbox group of two, the second with its label text for an
\* empty value, with a radio between them
C3_Witness ==
    /\ pc = "submit" /\ failed = {}
    /\ Len(current_form.fields) = 2
    /\ current_form.fields[1].options = <<S_a, S_B>>
    /\ current_form.fields[2].field_type = T_radio

\* the lines of a script that start with prefix
LinesWith(s, prefix) == LET Hit(line) == StartsWith(line, prefix) IN SelectSeq(s, Hit)

\* the lines that open a procedure definition
DefLines(s) == LinesWith(s, <<"d", "e", "f", " ">>)

\* a script was generated from a successful result with forms
ScriptOfForms == pc = "scripted" /\ result.success /\ result.forms # <<>>

\* C4: the script of a successful result with forms holds one
\* 'def fill_<name>_form():' line per form, in the order of the forms.
C4_OneProcedurePerForm ==
    ScriptOfForms =>
        /\ Len(DefLines(script)) = Len(result.forms)
        /\ \A k \in 1..Len(result.forms) :
              DefLines(script)[k] = L_def_fill \o ProcName(result.forms[k].name) \o L_form_def

\* C4, reached: two forms of different names
C4_Witness ==
    /\ ScriptOfForms
    /\ Len(result.forms) = 2
    /\ ProcName(result.forms[1].name) # ProcName(result.forms[2].name)

\* whether a field is a select with at least 2 options
IsLongSelect(field) == field.type = T_select /\ Len(field.options) >= 2

\* the select fields with at least 2 options, over all forms: (form, field) indices
LongSelects(fs) ==
    UNION {{<<k, m>> : m \in {m \in 1..Len(fs[k].fields) : IsLongSelect(fs[k].fields[m])}} :
              k \in 1..Len(fs)}

\* C5: the script holds as many select(...) lines as the result has select
\* fields with at least 2 options: a select with fewer gets none, whatever
\* the other fields are.
C5_NoSelectLineForShortSelect ==
    ScriptOfForms =>
        Len(LinesWith(script, L_select)) = Cardinality(LongSelects(result.forms))

\* C5, reached: a select with one option beside a select with three, and one
\* select(...) line
C5_Witness ==
    /\ ScriptOfForms
    /\ \E k, m \in 1..Len(result.forms[1].fields) :
          /\ result.forms[1].fields[k].type = T_select
          /\ Len(result.forms[1].fields[k].options) = 1
          /\ IsLongSelect(result.forms[1].fields[m])
    /\ Len(LinesWith(script, L_select)) = 1

\* the forms of a parsed result, and the fields of a parsed form
ParsedForms(v) == Get(v, K_forms).items
ParsedFields(v) == Get(v, K_fields).items

\* C6: the JSON text of a result parses, and the parsed result has the same
\* forms with the same number of fields, each field with the same type and
\* the same options in the same order.
C6_JsonRoundTrip ==
    pc = "saved" =>
        LET back == JsonLoads(json_text)
        IN /\ back.ok
           /\ Len(ParsedForms(back.v)) = Len(result.forms)
           /\ \A k \in 1..Len(result.forms) :
                 LET fields == ParsedFields(ParsedForms(back.v)[k])
                 IN /\ Len(fields) = Len(result.forms[k].fields)
                    /\ \A m \in 1..Len(fields) :
                          /\ Get(fields[m], K_type) = JStr(result.forms[k].fields[m].type)
                          /\ Get(fields[m], K_options)
                                = JStrList(result.forms[k].fields[m].options)

\* C6, reached: a form of two fields, one with an option that needs escaping
C6_Witness ==
    /\ pc = "saved" /\ result.success
    /\ Len(result.forms) = 1 /\ Len(result.forms[1].fields) = 2
    /\ \E m \in 1..2 : result.forms[1].fields[m].options = <<S_Pick, S_x, S_quote>>

\* the page of the scenario: one button, whose form holds a label for 'email',
\* the required text input 'email' and the submit button 'Log In'
ScenarioPage == <<Button(S_Login_Form, LoginContainer)>>

X_write_email == <<" ", " ", " ", " ", "w", "r", "i", "t", "e", "(", "'", "e", "x", "a", "m",
    "p", "l", "e", "_", "e", "m", "a", "i", "l", "'", ",", " ", "i", "n", "t", "o", "=", "'",
    "'", ")">>
X_click_log_in == <<" ", " ", " ", " ", "c", "l", "i", "c", "k", "(", "'", "L", "o", "g",
    " ", "I", "n", "'", ")">>
\* C7: on the scenario page an analysis without failures returns success with
\* one Form of one field (type 'text', label '', required) and submit_button
\* 'Log In', and the script has one procedure, with one write(...) line, for
\* the field, and click('Log In') after it.
C7_LoginScenario ==
    (page = ScenarioPage /\ pc = "scripted" /\ failed = {}) =>
        /\ result.success
        /\ Len(result.forms) = 1
        /\ Len(result.forms[1].fields) = 1
        /\ result.forms[1].fields[1].type = T_text
        /\ result.forms[1].fields[1].label = <<>>
        /\ result.forms[1].fields[1].required
        /\ result.forms[1].submit_button = Some(S_Log_In)
        /\ Len(DefLines(script)) = 1
        /\ LinesWith(script, SubSeq(L_write_example, 1, 10)) = <<X_write_email>>
        /\ \E a, b \in 1..Len(script) :
              a < b /\ script[a] = X_write_email /\ script[b] = X_click_log_in

\* C7, reached: the scenario page analysed without failures
C7_Witness == page = ScenarioPage /\ pc = "scripted" /\ failed = {} /\ script # <<>>

\* C8: when analyze_page returns, on whichever path, the browser is killed
\* and the driver handle is None.
C8_SessionReleasedOnReturn == Returned => driver = "None" /\ browser = "none"

\* C8, reached: a return after a failed navigation in a started browser
C8_Witness == pc = "done" /\ failed = {"nav"} /\ ~result.success

\* C9 as stated: no exception escapes analyze_page, whichever operation fails.
C9_NoExceptionEscapes == pc # "raised"

\* C10 as stated: a result returned after browser initialization, navigation,
\* form identification or an element lookup failed carries an error message.
C10_FailureSetsError ==
    (Returned /\ failed \cap ({"init", "nav"} \cup IdentifyOps \cup ExtractOps) # {})
        => ~result.error.isNone

\* C11 as stated: when a lookup fails at the i-th form-reveal button (its
\* click, the lookup of its container or of its submit buttons),
\* identify_forms still returns the Forms built for the buttons before it.
C11_EarlierFormsKept ==
    (pc = "convert" /\ failed \cap {"click", "container", "submit"} # {}) =>
        /\ Len(forms) = i - 1
        /\ \A k \in 1..(i - 1) : IsStripOf(forms[k].name, page[k].text)

\* the places of the lines of a script that are equal to line
PlacesOf(s, line) == {k \in 1..Len(s) : s[k] = line}

\* the call of a form's procedure in the main section
CallLine(form) == L_call_fill \o ProcName(form.name) \o L_form_call

\* C12: the script of a result with forms has one main section; after its
\* 'if __name__' line come the calls of the fill procedures, one per form in
\* the order of the forms, no such call stands before it, and kill_browser()
\* is the last line of the script, after the last call.
C12_MainCallsThenKill ==
    ScriptOfForms =>
        /\ Cardinality(PlacesOf(script, L_if_main)) = 1
        /\ LET m == CHOOSE k \in PlacesOf(script, L_if_main) : TRUE
               main == SubSeq(script, m + 1, Len(script))
           IN /\ LinesWith(main, L_call_fill)
                    = [k \in 1..Len(result.forms) |-> CallLine(result.forms[k])]
              /\ LinesWith(SubSeq(script, 1, m), L_call_fill) = <<>>
              /\ main[Len(main)] = L_kill
              /\ PlacesOf(script, L_kill) = {Len(script)}
              /\ \A k \in 1..Len(main) :
                    StartsWith(main[k], L_call_fill) => k < Len(main)

\* C12, reached: a script of two forms of different names, with its two calls
\* and kill_browser() at its end
C12_Witness ==
    /\ ScriptOfForms
    /\ Len(result.forms) = 2
    /\ CallLine(result.forms[1]) # CallLine(result.forms[2])
    /\ Len(LinesWith(script, L_call_fill)) = 2
    /\ script[Len(script)] = L_kill

TimesAttempted(a) == Cardinality({k \in 1..Len(attempts) : attempts[k] = a})

\* C14: within one analyze_page call no operation is attempted twice: the
\* browser is started at most once, the URL is navigated to at most once,
\* each button is clicked at most once, and no lookup, failed or not, is
\* made a second time.
C14_NoRetry ==
    /\ TimesAttempted(Attempt("init", 0, 0)) <= 1
    /\ TimesAttempted(Attempt("nav", 0, 0)) <= 1
    /\ \A k \in 1..Len(page) : TimesAttempted(Attempt("click", k, 0)) <= 1
    /\ \A a, b \in 1..Len(attempts) : a # b => attempts[a] # attempts[b]

\* C14, reached: a call that returned after a failed navigation in a browser
\* it started
C14_Witness ==
    /\ pc = "done" /\ failed = {"nav"}
    /\ TimesAttempted(Attempt("init", 0, 0)) = 1
    /\ TimesAttempted(Attempt("nav", 0, 0)) = 1

\* the label elements of container c whose 'for' attribute is id, in document order
LabelsFor(c, id) ==
    LET IsLabelFor(e) == e.tag = "label" /\ e.for = id IN SelectSeq(c.elems, IsLabelFor)

\* C15 as stated: every extracted field with a non-empty id has for its label
\* the stripped text of the first label element of the container whose 'for'
\* attribute is that id, and the empty string when there is no such label.
C15_LabelOfMatchingFor ==
    Extracted =>
        \A k \in 1..Len(current_form.fields) :
            LET f == current_form.fields[k]
                labels == LabelsFor(Revealed(i), f.field_id)
            IN f.field_id # <<>> =>
                  IF labels = <<>> THEN f.label = <<>>
                  ELSE IsStripOf(f.label, labels[1].text)

\* the field type of the field an element gives
KindOf(e) ==
    IF e.tag = "textarea" THEN T_textarea
    ELSE IF e.tag = "select" THEN T_select
    ELSE InputType(e)

\* the places in container c of the elements that give a field of their own:
\* the textareas, the selects, and the inputs that are not hidden and not a
\* later member of a checkbox or radio group
FieldPlaces(c) ==
    {k \in 1..Len(c.elems) :
        LET e == c.elems[k]
        IN \/ e.tag \in {"textarea", "select"}
           \/ /\ e.tag = "input"
              /\ InputType(e) # T_hidden
              /\ ~ /\ IsGroupType(InputType(e))
                   /\ \E m \in 1..(k - 1) :
                         /\ c.elems[m].tag = "input"
                         /\ InputType(c.elems[m]) = InputType(e)
                         /\ c.elems[m].name = e.name}

\* the r-th of these places, in document order
FieldPlace(c, r) ==
    CHOOSE k \in FieldPlaces(c) : Cardinality({m \in FieldPlaces(c) : m <= k}) = r

\* C16 as stated: the fields of an extracted Form stand in the document order
\* of their elements: the r-th field is the field of the r-th element of the
\* container that gives a field.
C16_FieldsInDocumentOrder ==
    Extracted =>
        LET c == Revealed(i)
        IN /\ Len(current_form.fields) = Cardinality(FieldPlaces(c))
           /\ \A r \in 1..Len(current_form.fields) :
                 /\ current_form.fields[r].name = c.elems[FieldPlace(c, r)].name
                 /\ current_form.fields[r].field_type = KindOf(c.elems[FieldPlace(c, r)])

\* the r-th place of a set of places
NthPlace(P, r) == CHOOSE k \in P : Cardinality({m \in P : m <= k}) = r

\* the place after which the field lines of the k-th procedure of script s
\* stand, and the place of the empty line that ends them
FillPlace(s, k) == NthPlace(PlacesOf(s, L_fill_comment), k)
FillEnd(s, k) == NthPlace({p \in PlacesOf(s, <<>>) : p > FillPlace(s, k)}, 1)

\* the field lines of the k-th procedure
FieldSegment(s, k) == SubSeq(s, FillPlace(s, k) + 1, FillEnd(s, k) - 1)

\* every procedure of the script has its field lines, ended by an empty line
WellFormed(s, n) ==
    /\ Cardinality(PlacesOf(s, L_fill_comment)) = n
    /\ \A k \in 1..n : \E p \in PlacesOf(s, <<>>) : p > FillPlace(s, k)

\* line is an action (write, select or click) on field f
Populates(line, f) ==
    \/ line = L_write_example \o f.name \o L_into \o f.label \o L_close_call
    \/ line = L_write_sample \o f.name \o L_into \o f.label \o L_close_call
    \/ line = L_click \o f.label \o L_close_call
    \/ \E m \in 1..Len(f.options) :
          \/ line = L_click \o f.options[m] \o L_close_call
          \/ line = L_select \o f.options[m] \o L_from \o f.label \o L_close_call

\* C17 as stated: every field of every form of the result has an action line
\* in the procedure of its form.
C17_LinePerField ==
    ScriptOfForms =>
        /\ WellFormed(script, Len(result.forms))
        /\ \A k \in 1..Len(result.forms) :
              LET seg == FieldSegment(script, k)
                  fields == result.forms[k].fields
              IN /\ Len(seg) >= Len(fields)
                 /\ \A m \in 1..Len(fields) :
                       \E p \in 1..Len(seg) : Populates(seg[p], fields[m])

\* the fields generate_helium_script has a line for
HasLine(f) ==
    \/ f.type \in {T_text, T_email, T_password, T_tel, T_date, T_textarea, T_checkbox}
    \/ f.type = T_select /\ Len(f.options) >= 2
    \/ f.type = T_radio /\ Len(f.options) >= 1

\* C17, amended: a field has one action line in the procedure of its form
\* when it is a text, email, password, tel or date input, a textarea, a
\* checkbox, a select with at least 2 options or a radio with an option; any
\* other field (another input type, a select with fewer than 2 options, a
\* radio without options) has none.
C17_LinePerSupportedField ==
    ScriptOfForms =>
        /\ WellFormed(script, Len(result.forms))
        /\ \A k \in 1..Len(result.forms) :
              LET seg == FieldSegment(script, k)
                  fields == result.forms[k].fields
              IN /\ Len(seg) = Cardinality({m \in 1..Len(fields) : HasLine(fields[m])})
                 /\ \A m \in 1..Len(fields) :
                       HasLine(fields[m]) =>
                           \E p \in 1..Len(seg) : Populates(seg[p], fields[m])

\* C17, reached: a form of a 'number' input and a textarea, with one field line
C17_Witness ==
    /\ ScriptOfForms
    /\ Len(result.forms) = 1 /\ Len(result.forms[1].fields) = 2
    /\ result.forms[1].fields[1].type = S_number
    /\ result.forms[1].fields[2].type = T_textarea
    /\ Len(FieldSegment(script, 1)) = 1

\* the select(...) line of a select field: its option at index 1 of the
\* list, the second, from its label
SecondOptionLine(f) == L_select \o f.options[2] \o L_from \o f.label \o L_close_call

\* C18: the select(...) lines of a procedure are, in the order of the fields,
\* one line per select field of the form with at least 2 options, naming the
\* field's option at index 1 and its label; the script has no other
\* select(...) line.
C18_SelectsSecondOption ==
    ScriptOfForms =>
        /\ WellFormed(script, Len(result.forms))
        /\ \A k \in 1..Len(result.forms) :
              LET long == SelectSeq(result.forms[k].fields, IsLongSelect)
              IN LinesWith(FieldSegment(script, k), L_select)
                    = [m \in 1..Len(long) |-> SecondOptionLine(long[m])]
        /\ Len(LinesWith(script, L_select)) = Cardinality(LongSelects(result.forms))

\* C18, reached: a select of three options after a select of one option, and
\* the one line select('x', from_='A')
C18_Witness ==
    /\ ScriptOfForms
    /\ Len(result.forms) = 1 /\ Len(result.forms[1].fields) = 2
    /\ result.forms[1].fields[1].type = T_select
    /\ result.forms[1].fields[1].options = <<S_a>>
    /\ result.forms[1].fields[2].type = T_select
    /\ result.forms[1].fields[2].options = <<S_Pick, S_x, S_quote>>
    /\ FieldSegment(script, 1) = <<L_select \o S_x \o L_from \o S_A \o L_close_call>>

\* the place of the line that follows the k-th procedure: the next 'def' line
\* or the comment of the main section
ProcEnd(s, k) ==
    NthPlace({p \in 1..Len(s) :
                 /\ p > FillPlace(s, k)
                 /\ StartsWith(s[p], <<"d", "e", "f", " ">>) \/ s[p] = L_main_comment}, 1)

\* the lines of the k-th procedure after its field lines
AfterFields(s, k) == SubSeq(s, FillEnd(s, k), ProcEnd(s, k) - 1)

\* whether a field is a checkbox, or a radio with options
IsClicked(f) == f.type = T_checkbox \/ (f.type = T_radio /\ f.options # <<>>)

\* the click(...) line of such a field
ClickLine(f) ==
    L_click \o (IF f.type = T_checkbox THEN f.label ELSE f.options[1]) \o L_close_call

\* C19 as stated: the click(...) lines among the field lines of a procedure
\* are one per checkbox, on its label, and one per radio with options, on its
\* option at index 0; after the field lines stands the click on the submit
\* button when the form recorded one (its submit_button is not None), and no
\* click otherwise.
C19_ClicksAndSubmit ==
    ScriptOfForms =>
        /\ WellFormed(script, Len(result.forms))
        /\ \A k \in 1..Len(result.forms) :
              LET form == result.forms[k]
                  clicked == SelectSeq(form.fields, IsClicked)
              IN /\ LinesWith(FieldSegment(script, k), L_click)
                       = [m \in 1..Len(clicked) |-> ClickLine(clicked[m])]
                 /\ LinesWith(AfterFields(script, k), L_click)
                       = IF form.submit_button.isNone THEN <<>>
                         ELSE <<L_click \o form.submit_button.s \o L_close_call>>

\* C20 as stated: after an analysis of a page of N form-reveal buttons in
\* which no step failed, the analysis has written N+1 screenshot files: the
\* full-page capture and one file per form reveal.
C20_OneFilePerReveal ==
    (Returned /\ failed = {}) => Cardinality(written) = Len(page) + 1

\* C21: no step changes a Form that identify_forms has appended to its list:
\* as long as the list keeps its k-th Form, that Form keeps its name, id,
\* fields (with their options) and submit_button.  (The list itself is
\* dropped when identify_forms fails and when the next call begins.)
C21_AppendedFormsUnchanged ==
    [][\A k \in 1..Len(forms) : k <= Len(forms') => forms'[k] = forms[k]]_vars

\* C21, reached: the second button's form, with fields and a submit button of
\* its own, appended after the form of the first
C21_Witness ==
    /\ pc = "convert" /\ failed = {}
    /\ Len(forms) = 2
    /\ forms[1].submit_button = Some(S_Log_In) /\ Len(forms[1].fields) = 1
    /\ forms[2].submit_button = Some(S_Go) /\ Len(forms[2].fields) > 1

\* C22: at most one browser session is live at any time.  A session begins
\* only in navigate_to, only when the driver handle is None, and then no
\* session is live; a handle of None never stands beside a live session;
\* take_screenshot and identify_forms begin none; and a call attempts the
\* start of a browser at most once.
C22_OneSessionAtATime ==
    /\ [](driver = "None" => browser # "live")
    /\ [](TimesAttempted(Attempt("init", 0, 0)) <= 1)
    /\ [][(browser' = "live" /\ (browser # "live" \/ driver' # driver)) =>
             (pc = "navigate" /\ driver = "None" /\ browser # "live")]_vars

\* C22, reached: a second call navigates in the session that the first call
\* left live when its kill_browser raised, and starts no browser
C22_Witness ==
    /\ pc = "screenshot"
    /\ driver = "WebDriver" /\ browser = "live"
    /\ attempts = <<Attempt("nav", 0, 0)>>

RECURSIVE FoldInputs(_, _)
\* the fields after _process_input_field has processed the inputs ins, one
\* after the other, starting from fields
FoldInputs(ins, fields) ==
    IF ins = <<>> THEN fields
    ELSE FoldInputs(Tail(ins), ProcessInputField(Head(ins), fields))

\* the sequence s without its q-th element
Without(s, q) == SubSeq(s, 1, q - 1) \o SubSeq(s, q + 1, Len(s))

\* C23: when the lookup of one input of the first form failed (and nothing
\* else did), the extraction ends with the
\* fields that the other inputs of the container give, as if the failed
\* input were absent, followed by the fields of all textareas and selects;
\* every input was attempted.
C23_FailedInputSkipped ==
    (pc = "submit" /\ i = 1 /\ failed = {"input"} /\ faults = 1) =>
        LET c == Revealed(i)
        IN /\ \E q \in 1..Len(Inputs(c)) :
                 current_form.fields
                    = FoldInputs(Without(Inputs(c), q), <<>>) \o RestFields(c)
           /\ \A k \in 1..Len(Inputs(c)) : TimesAttempted(Attempt("input", i, k)) = 1

\* C23, reached: of two inputs and a textarea, one input failed and the form
\* has the field of the other input and the field of the textarea
C23_Witness ==
    /\ pc = "submit" /\ failed = {"input"}
    /\ Len(Inputs(Revealed(i))) = 2 /\ Len(Textareas(Revealed(i))) = 1
    /\ Len(current_form.fields) = 2
    /\ current_form.fields[2].field_type = T_textarea

\* C24: a returned result has success True exactly when the browser start and
\* the navigation did not fail; with success True its error is None; with
\* success False its forms list is empty and its error is not None.
C24_ResultShape ==
    Returned =>
        /\ result.success <=> (failed \cap {"init", "nav"} = {})
        /\ result.success => result.error = None
        /\ ~result.success => (result.forms = <<>> /\ ~result.error.isNone)

\* C24, reached: a result returned after the browser failed to start
C24_Witness ==
    /\ pc = "done" /\ failed = {"init"}
    /\ ~result.success /\ result.error = Some(E_navigate) /\ result.forms = <<>>

\* whether an input is hidden
IsHidden(e) == InputType(e) = T_hidden

\* C25: an extracted Form has no field of type 'hidden', has one field per
\* element that is not a hidden input (a group counting once), and the
\* options of its checkbox and radio fields come from the checkboxes and
\* radios alone: the form is the one its container gives without its hidden
\* inputs.
C25_HiddenInputsLeaveNoTrace ==
    Extracted =>
        LET c == Revealed(i)
            NotHidden(e) == ~IsHidden(e)
        IN /\ \A k \in 1..Len(current_form.fields) :
                 /\ current_form.fields[k].field_type # T_hidden
                 /\ IsGroupType(current_form.fields[k].field_type) =>
                       current_form.fields[k].options
                          = ExpectedOptions(c, Len(Inputs(c)), current_form.fields[k].name,
                                            current_form.fields[k].field_type)
           /\ Len(current_form.fields) = Cardinality(FieldPlaces(c))
           /\ current_form.fields
                 = FoldInputs(SelectSeq(Inputs(c), NotHidden), <<>>) \o RestFields(c)

\* C25, reached: a checkbox named 'g' followed by a hidden input named 'g',
\* and a form of the one checkbox field with the one option
C25_Witness ==
    /\ Extracted
    /\ Revealed(i).elems = <<CheckA, HiddenG>>
    /\ Len(current_form.fields) = 1
    /\ current_form.fields[1].options = <<S_a>>

\* C26: the script is the one line '# No valid forms found to generate script
\* for' exactly when the result's success is False or its forms list is
\* empty; any other script has the navigation, a procedure and kill_browser().
C26_NoFormsComment ==
    pc = "scripted" =>
        /\ script = <<L_no_forms>> <=> (~result.success \/ result.forms = <<>>)
        /\ script # <<L_no_forms>> =>
              /\ LinesWith(script, L_go_to) # <<>>
              /\ DefLines(script) # <<>>
              /\ PlacesOf(script, L_kill) # {}

\* C26, reached: the one-line script of a result with success True and no
\* forms, returned after the wait of identify_forms failed
C26_Witness ==
    /\ pc = "scripted" /\ failed = {"wait"}
    /\ result.success /\ result.forms = <<>>
    /\ script = <<L_no_forms>>

\* the form whose procedure a call of fill_<name>_form() runs: Python binds
\* the name to the last def statement executed with it
BoundForm(fs, name) ==
    LET same == {k \in 1..Len(fs) : ProcName(fs[k].name) = name}
    IN  CHOOSE k \in same : \A m \in same : m <= k

\* C27 as stated: the procedure names of distinct forms differ, so each call
\* of the main section runs the procedure of its own form.
C27_OwnProcedure ==
    ScriptOfForms =>
        /\ \A a, b \in 1..Len(result.forms) :
              a # b => ProcName(result.forms[a].name) # ProcName(result.forms[b].name)
        /\ \A a, b \in 1..Len(DefLines(script)) :
              a # b => DefLines(script)[a] # DefLines(script)[b]
        /\ \A k \in 1..Len(result.forms) :
              BoundForm(result.forms, ProcName(result.forms[k].name)) = k

\* the select fields of a form of the result, in the order of the list
SelectFieldsOf(form) == LET IsSel(f) == f.type = T_select IN SelectSeq(form.fields, IsSel)

\* C28 as stated: after an analysis without a failure, for every select
\* element of the revealed form with at least 2 option elements the procedure
\* has the select(...) line naming the text of the element's option at index
\* 1 in the DOM, from the label of its field.
C28_SelectsSecondDomOption ==
    (pc = "scripted" /\ failed = {} /\ Len(page) = 1 /\ Len(result.forms) = 1) =>
        LET sels == Selects(page[1].container)
            fs == SelectFieldsOf(result.forms[1])
        IN  /\ Len(fs) = Len(sels)
            /\ \A k \in 1..Len(sels) :
                  Len(sels[k].options) >= 2 =>
                      PlacesOf(FieldSegment(script, 1),
                               L_select \o sels[k].options[2] \o L_from
                                  \o fs[k].label \o L_close_call) # {}

\* the ActionSteps of the memory that hold a screenshot
WithImages(steps) ==
    {n \in 1..Len(steps) : IsActionStep(steps[n]) /\ ~steps[n].observations_images.isNone}

\* C29: once save_screenshot has run for step k with a driver handle, every
\* ActionStep of the agent's memory numbered k-2 or less has no observation
\* images, and at most two ActionSteps hold a screenshot.
C29_AtMostTwoScreenshots ==
    (pc = "running" /\ driver # "None") =>
        LET k == Len(ActionSteps(memory))
        IN  /\ \A n \in 1..Len(memory) :
                  (IsActionStep(memory[n]) /\ memory[n].step_number <= k - 2) =>
                      memory[n].observations_images.isNone
            /\ Cardinality(WithImages(memory)) <= 2

\* C29, reached: after the callback for step 3, step 1 has lost the
\* screenshot it had, steps 2 and 3 hold theirs
C29_Witness ==
    /\ pc = "running" /\ driver # "None" /\ browser = "live"
    /\ Len(ActionSteps(memory)) = 3
    /\ ActionSteps(memory)[1].observations = Some(UrlTitleInfo)
    /\ ActionSteps(memory)[1].observations_images.isNone
    /\ ~ActionSteps(memory)[2].observations_images.isNone
    /\ ~ActionSteps(memory)[3].observations_images.isNone

\* C30 as stated: a driver handle that is not None refers to a session that
\* has not been killed, and run_with_feedback, which runs the agent only
\* after initialize_browser() returned True, runs it on a live browser.
C30_HandleMeansLiveBrowser ==
    /\ driver # "None" => browser = "live"
    /\ pc = "running" => browser = "live"

====
